---- MODULE Spec2Model ----
(***************************************************************************)
(* A model of src/training.py: the training loop of trainingNetwork        *)
(* (gradient accumulation, loss policy, periodic validation, best-model    *)
(* checkpointing) and the evaluation pass of evaluateNetwork (confusion    *)
(* matrix, accuracy, weighted Jaccard) as called by testNetwork.           *)
(*                                                                         *)
(* The network, the optimizer and the loss functions of the losses module  *)
(* are opaque: a prediction is any class index, a gradient buffer is the   *)
(* number of backward passes accumulated since the last zero_grad(), and a *)
(* loss is the linear combination of named loss terms the code builds.     *)
(* The sinks that nothing reads back (print, writer.add_scalar, the         *)
(* learning-rate scheduler, the classification results saved under          *)
(* savefolder) are left out.  The metrics of an evaluation inside the       *)
(* training loop are any of a few levels; evaluateNetwork itself is         *)
(* modelled pixel by pixel under SpecEval.                                  *)
(***************************************************************************)
EXTENDS Integers, Sequences, FiniteSets

\* ---------------------------------------------------------------- bounds

MaxEpochs == 4
MaxBatchMult == 2
MaxTrainBatches == 3
MaxValFreq == 2
MaxSwitch == 1
MaxScore == 2
MaxLossEpoch == 12
MaxImages == 2
MaxBatchSize == 2

\* ------------------------------------------------------ program constants

\* alpha = 1.0 - (epoch - epochs_switch) / 10.0
AlphaDecayEpochs == 10
\* ... + (1.0 - alpha) * 0.3 * surface_loss, in tenths
BoundaryFactorTenths == 3

VARIABLES
    \* trainingNetwork: parameters
    epochs, batch_mult, validation_frequency, loss_to_use, epochs_switch,
    nTrainBatches,        \* len(dataloaderTrain): mini-batches per epoch
    nValBatches,          \* len(dataloaderVal)
    \* trainingNetwork: locals
    pc, epoch, i, loss, alpha, best_accuracy, best_jaccard_score,
    metrics_val, metrics_train,
    \* collaborators
    grads,                \* backward passes accumulated since the last zero_grad()
    checkpoint,           \* the files written by torch.save / saveMetrics
    hparams,              \* writer.add_hparams at the end of the run
    err,                  \* the exception that ended the run, if any
    \* instrumentation
    applied,              \* the accumulation each optimizer.step() of this epoch applied
    steps, forwards, lossEpoch, valEpochs, nWrites, maxSeen,
    \* evaluateNetwork: parameters
    caller,               \* testNetwork or trainingNetwork
    dataset,              \* the label maps of the split's images, in loader order
    batch_size, flagTrainingDataset,
    \* evaluateNetwork: locals
    k, CM, ypred_list, ytrue_list, loss_values,
    returned,             \* the (metrics, mean_loss) handed back to the caller
    metrics_file,         \* testNetwork: the report written by saveMetrics
    evaluated             \* instrumentation: label map and prediction of each image seen

vars == <<epochs, batch_mult, validation_frequency, loss_to_use, epochs_switch,
          nTrainBatches, nValBatches, pc, epoch, i, loss, alpha, best_accuracy,
          best_jaccard_score, metrics_val, metrics_train, grads, checkpoint,
          hparams, err, applied, steps, forwards, lossEpoch, valEpochs, nWrites,
          maxSeen, caller, dataset, batch_size, flagTrainingDataset, k, CM,
          ypred_list, ytrue_list, loss_values, returned, metrics_file, evaluated>>

\* ------------------------------------------------------------ loss policy

LossNames == {"CROSSENTROPY", "DICE", "BOUNDARY", "DICE+BOUNDARY"}

\* A loss is a linear combination of the four loss functions the loop calls:
\* lossfn (weighted cross entropy), losses.generalized_dice_loss (with
\* w_for_GDL), losses.dice_loss (no weights) and losses.surface_loss.
\* Coefficients are kept as integers, in units of 1 / LossUnit.
LossUnit == AlphaDecayEpochs * 10

NoLoss == [bound |-> TRUE, ce |-> 0, gdl |-> 0, dice |-> 0, surface |-> 0]

\* the local name loss before any branch of the if/elif chain assigns it
Unbound == [NoLoss EXCEPT !.bound = FALSE]

CrossEntropyLoss == [NoLoss EXCEPT !.ce = LossUnit]

GeneralizedDiceLoss == [NoLoss EXCEPT !.gdl = LossUnit]

SurfaceLoss == [NoLoss EXCEPT !.surface = LossUnit]

\* Alpha without the clamp at 0
AlphaUnclamped(ep, sw) == AlphaDecayEpochs - (ep - sw)

\* alpha, in units of 1 / AlphaDecayEpochs
Alpha(ep, sw) ==
    LET a == AlphaDecayEpochs - (ep - sw)
    IN  IF a < 0 THEN 0 ELSE a

BlendedLoss(a) ==
    [NoLoss EXCEPT !.dice = a * 10,
                   !.surface = (AlphaDecayEpochs - a) * BoundaryFactorTenths]

DiceThenBoundaryLoss(ep, sw) ==
    IF ep < sw THEN GeneralizedDiceLoss ELSE BlendedLoss(Alpha(ep, sw))

\* the if/elif chain over loss_to_use; it has no else branch
TrainingLoss(name, ep, sw) ==
    IF name = "CROSSENTROPY" THEN CrossEntropyLoss
    ELSE IF name = "DICE" THEN GeneralizedDiceLoss
    ELSE IF name = "BOUNDARY" THEN SurfaceLoss
    ELSE IF name = "DICE+BOUNDARY" THEN DiceThenBoundaryLoss(ep, sw)
    ELSE Unbound

\* -------------------------------------------------------- training loop

NoMetrics == [Accuracy |-> -1, JaccardScore |-> -1]

NoCheckpoint == [net |-> -1, val |-> NoMetrics, train |-> NoMetrics]

NoHparams == [Accuracy |-> -1, mIoU |-> -1]

\* ------------------------------------------------------------ evaluation

\* class_indices = list(range(nclasses))
Classes == {0, 1}

\* the label of a pixel that is to be ignored (ignore_index=-1)
Ignore == -1

Labels == Classes \cup {Ignore}

\* the pixels of an image tile, in ravel() order
PixelIdx == {1, 2}

\* DataLoader(dataset, batch_size=size, shuffle=False, drop_last=True)
DataLoader(data, size) ==
    [b \in 1..(Len(data) \div size) |->
        SubSeq(data, (b - 1) * size + 1, b * size)]

RECURSIVE Ravel(_)
\* numpy().ravel() of a batch: the pixels of its images, one image after another
Ravel(images) ==
    IF images = <<>> THEN <<>> ELSE Head(images) \o Ravel(Tail(images))

ZeroMatrix == [r \in Classes |-> [c \in Classes |-> 0]]

\* ConfusionMatrix with the ignore label taken as an index: -1 is the last row
ConfusionMatrixIgnoreWraps(y_true, y_pred) ==
    [r \in Classes |-> [c \in Classes |->
        Cardinality({n \in DOMAIN y_true :
            /\ y_pred[n] = c
            /\ \/ y_true[n] = r
               \/ y_true[n] = Ignore /\ r = Cardinality(Classes) - 1})]]

\* sklearn's confusion_matrix(y_true, y_pred, labels): a pixel whose true or
\* predicted label is not among labels is counted nowhere
ConfusionMatrix(y_true, y_pred) ==
    [r \in Classes |-> [c \in Classes |->
        Cardinality({n \in DOMAIN y_true : y_true[n] = r /\ y_pred[n] = c})]]

\* confusion_matrix raises ValueError("At least one label specified must be
\* in y_true") for an image with no pixel of any class
NoLabelInTruth(y_true) == \A n \in DOMAIN y_true : y_true[n] \notin Classes

\* CM += confmat
AddMatrix(cm, confmat) ==
    [r \in Classes |-> [c \in Classes |-> cm[r][c] + confmat[r][c]]]

RECURSIVE SumOver(_, _)
SumOver(f, S) ==
    IF S = {} THEN 0
    ELSE LET x == CHOOSE y \in S : TRUE IN f[x] + SumOver(f, S \ {x})

RECURSIVE ProductOver(_, _)
ProductOver(f, S) ==
    IF S = {} THEN 1
    ELSE LET x == CHOOSE y \in S : TRUE IN f[x] * ProductOver(f, S \ {x})

\* CM.sum()
MatrixSum(cm) == SumOver([r \in Classes |-> SumOver(cm[r], Classes)], Classes)

\* np.sum(np.diag(CM))
MatrixTrace(cm) == SumOver([r \in Classes |-> cm[r][r]], Classes)

\* CM / sum_row: a row with no pixel divides by zero and is nan
NormalizedMatrix(cm) ==
    [r \in Classes |-> [c \in Classes |->
        IF SumOver(cm[r], Classes) = 0 THEN <<"nan">>
        ELSE <<cm[r][c], SumOver(cm[r], Classes)>>]]

\* sklearn's jaccard_score(ytrue, ypred, average='weighted') as the fraction
\* <<numerator, denominator>>: over every label present in ytrue or ypred
\* (the ignore label too, when it is there), the intersection over union of
\* the label, weighted by its support in ytrue
WeightedJaccard(ytrue, ypred) ==
    LET present == {ytrue[n] : n \in DOMAIN ytrue} \cup {ypred[n] : n \in DOMAIN ypred}
        inter == [c \in present |->
                    Cardinality({n \in DOMAIN ytrue : ytrue[n] = c /\ ypred[n] = c})]
        union == [c \in present |->
                    Cardinality({n \in DOMAIN ytrue : ytrue[n] = c \/ ypred[n] = c})]
        support == [c \in present |->
                    Cardinality({n \in DOMAIN ytrue : ytrue[n] = c})]
        term == [c \in present |->
                    support[c] * inter[c] * ProductOver(union, present \ {c})]
    IN  <<SumOver(term, present), Len(ytrue) * ProductOver(union, present)>>

NoResult == [raised |-> "none", metrics |-> <<>>, mean_loss |-> <<>>]

\* Finalize with the divisions guarded: an empty split gives zero metrics
FinalizeZeroMetrics(losses, cm, ytrue, ypred, flag) ==
    [raised |-> "none",
     metrics |-> [ConfMatrix |-> cm,
                  NormConfMatrix |-> NormalizedMatrix(cm),
                  Accuracy |-> IF MatrixSum(cm) = 0 THEN <<0, 1>>
                               ELSE <<MatrixTrace(cm), MatrixSum(cm)>>,
                  JaccardScore |-> IF flag \/ Len(ytrue) = 0 THEN <<0, 1>>
                                   ELSE WeightedJaccard(ytrue, ypred)],
     mean_loss |-> <<"mean", losses>>]

\* lines 123-148 of evaluateNetwork: what the pass hands back, or the
\* exception it ends with
Finalize(losses, cm, ytrue, ypred, flag) ==
    IF Len(losses) = 0
    THEN \* mean_loss = sum(loss_values) / len(loss_values)
         [NoResult EXCEPT !.raised = "ZeroDivisionError"]
    ELSE IF MatrixSum(cm) = 0
    THEN \* accuracy = float(pixels_correct) / float(pixels_total)
         [NoResult EXCEPT !.raised = "ZeroDivisionError"]
    ELSE [raised |-> "none",
          metrics |-> [ConfMatrix |-> cm,
                       NormConfMatrix |-> NormalizedMatrix(cm),
                       Accuracy |-> <<MatrixTrace(cm), MatrixSum(cm)>>,
                       JaccardScore |-> IF flag THEN <<0, 1>>
                                        ELSE WeightedJaccard(ytrue, ypred)],
          mean_loss |-> <<"mean", losses>>]

\* -------------------------------------------------------- initial states

\* trainingNetwork before its first epoch
TrainingStart ==
    /\ epoch = 0
    /\ i = 0
    /\ loss = Unbound
    /\ alpha = -1
    /\ best_accuracy = 0
    /\ best_jaccard_score = 0
    /\ metrics_val = NoMetrics
    /\ metrics_train = NoMetrics
    /\ grads = 0
    /\ checkpoint = NoCheckpoint
    /\ hparams = NoHparams
    /\ err = "none"
    /\ applied = <<>>
    /\ steps = 0
    /\ forwards = 0
    /\ lossEpoch = -1
    /\ valEpochs = <<>>
    /\ nWrites = 0
    /\ maxSeen = 0

\* evaluateNetwork before its first batch
EvaluationStart ==
    /\ k = 0
    /\ CM = ZeroMatrix
    /\ ypred_list = <<>>
    /\ ytrue_list = <<>>
    /\ loss_values = <<>>
    /\ returned = NoResult
    /\ metrics_file = <<>>
    /\ evaluated = <<>>

NoTraining ==
    /\ epochs = 0
    /\ batch_mult = 1
    /\ validation_frequency = 1
    /\ nTrainBatches = 0
    /\ nValBatches = 0

NoEvaluation ==
    /\ caller = "none"
    /\ dataset = <<>>
    /\ batch_size = 1
    /\ flagTrainingDataset = FALSE
    /\ EvaluationStart

\* a call of trainingNetwork
Init ==
    /\ epochs \in 0..MaxEpochs
    /\ batch_mult \in 1..MaxBatchMult
    /\ validation_frequency \in 1..MaxValFreq
    /\ loss_to_use \in LossNames \cup {"FOCAL"}
    \* epochs_switch is read under DICE+BOUNDARY only
    /\ epochs_switch \in IF loss_to_use = "DICE+BOUNDARY" THEN 0..MaxSwitch ELSE {0}
    /\ nTrainBatches \in 0..MaxTrainBatches
    /\ nValBatches \in {0, 1}
    /\ pc = "loop"
    /\ TrainingStart
    /\ NoEvaluation

config == <<epochs, batch_mult, validation_frequency, loss_to_use, epochs_switch,
            nTrainBatches, nValBatches>>

evaluation == <<caller, dataset, batch_size, flagTrainingDataset, k, CM, ypred_list,
                ytrue_list, loss_values, returned, metrics_file, evaluated>>

best == <<best_accuracy, best_jaccard_score, checkpoint, nWrites, maxSeen>>

\* StartEpoch without optimizer.zero_grad()
StartEpochKeepsGrads ==
    /\ pc = "loop"
    /\ epoch < epochs
    /\ pc' = "train"
    /\ i' = 0
    /\ applied' = <<>>
    /\ UNCHANGED <<config, evaluation, best, epoch, loss, alpha, metrics_val,
                   metrics_train, grads, hparams, err, steps, forwards, lossEpoch,
                   valEpochs>>

\* for epoch in range(epochs): net.train(); optimizer.zero_grad()
StartEpoch ==
    /\ pc = "loop"
    /\ epoch < epochs
    /\ pc' = "train"
    /\ i' = 0
    /\ grads' = 0
    /\ applied' = <<>>
    /\ UNCHANGED <<config, evaluation, best, epoch, loss, alpha, metrics_val, metrics_train,
                   hparams, err, steps, forwards, lossEpoch, valEpochs>>

\* if (i+1) % batch_mult == 0
StepDue(idx, mult) == (idx + 1) % mult = 0

\* one iteration of the loop over dataloaderTrain
MiniBatch ==
    /\ pc = "train"
    /\ i < nTrainBatches
    /\ forwards' = forwards + 1
    /\ LET l == TrainingLoss(loss_to_use, epoch, epochs_switch)
       IN  IF ~l.bound
           THEN \* loss.backward() on a name no branch assigned
                /\ pc' = "raised"
                /\ err' = "UnboundLocalError"
                /\ UNCHANGED <<i, loss, alpha, grads, applied, steps, lossEpoch>>
           ELSE /\ loss' = l
                /\ lossEpoch' = epoch
                /\ alpha' = IF loss_to_use = "DICE+BOUNDARY" /\ epoch >= epochs_switch
                            THEN Alpha(epoch, epochs_switch) ELSE alpha
                /\ IF StepDue(i, batch_mult)
                   THEN /\ applied' = Append(applied, grads + 1)
                        /\ steps' = steps + 1
                        /\ grads' = 0
                   ELSE /\ grads' = grads + 1
                        /\ UNCHANGED <<applied, steps>>
                /\ i' = i + 1
                /\ UNCHANGED <<pc, err>>
    /\ UNCHANGED <<config, evaluation, best, epoch, metrics_val, metrics_train, hparams,
                   valEpochs>>

\* ValidationDue without the test of epoch > 0
ValidationDueFromZero(ep, freq) == (ep + 1) % freq = 0

\* if epoch > 0 and (epoch+1) % validation_frequency == 0
ValidationDue(ep, freq) == ep > 0 /\ (ep + 1) % freq = 0

\* the end of an epoch with no validation
EndEpoch ==
    /\ pc = "train"
    /\ i = nTrainBatches
    /\ ~ValidationDue(epoch, validation_frequency)
    /\ epoch' = epoch + 1
    /\ pc' = "loop"
    /\ UNCHANGED <<config, evaluation, best, i, loss, alpha, metrics_val, metrics_train, grads,
                   hparams, err, applied, steps, forwards, lossEpoch, valEpochs>>

\* What a call of evaluateNetwork on a split of n batches can give: the
\* exception of the mean-loss division when n = 0, else some Metrics, whose
\* JaccardScore stays 0.0 when flagTrainingDataset is set.
EvaluationRaises(n) == n = 0

\* two levels of accuracy, a lower and a higher one
AccuracyLevels == {0, 1}

EvaluationMetrics(flag) ==
    [Accuracy : AccuracyLevels,
     JaccardScore : IF flag THEN {0} ELSE 0..MaxScore]

\* evaluateNetwork on the validation split, then on the training split
Validate ==
    /\ pc = "train"
    /\ i = nTrainBatches
    /\ ValidationDue(epoch, validation_frequency)
    /\ valEpochs' = Append(valEpochs, epoch)
    /\ IF EvaluationRaises(nValBatches)
       THEN /\ pc' = "raised"
            /\ err' = "ZeroDivisionError"
            /\ UNCHANGED <<metrics_val, metrics_train>>
       ELSE \E mv \in EvaluationMetrics(FALSE) :
              /\ metrics_val' = mv
              /\ IF EvaluationRaises(nTrainBatches)
                 THEN /\ pc' = "raised"
                      /\ err' = "ZeroDivisionError"
                      /\ UNCHANGED metrics_train
                 ELSE /\ \E mt \in EvaluationMetrics(TRUE) : metrics_train' = mt
                      /\ pc' = "compare"
                      /\ UNCHANGED err
    /\ UNCHANGED <<config, evaluation, best, epoch, i, loss, alpha, grads, hparams, applied,
                   steps, forwards, lossEpoch>>

\* Improved with >= for >
ImprovedOrEqual(jaccard_score, best_score) == jaccard_score >= best_score

\* Improved on any change of the score
ImprovedOrChanged(jaccard_score, best_score) == jaccard_score # best_score

\* if jaccard_score > best_jaccard_score
Improved(jaccard_score, best_score) == jaccard_score > best_score

\* the comparison with the best score, and the checkpoint it may write
Checkpointing ==
    /\ pc = "compare"
    /\ IF Improved(metrics_val.JaccardScore, best_jaccard_score)
       THEN /\ best_accuracy' = metrics_val.Accuracy
            /\ best_jaccard_score' = metrics_val.JaccardScore
            \* the weights saved are those after the steps made so far
            /\ checkpoint' = [net |-> steps, val |-> metrics_val,
                              train |-> metrics_train]
            /\ nWrites' = nWrites + 1
       ELSE UNCHANGED <<best_accuracy, best_jaccard_score, checkpoint, nWrites>>
    /\ maxSeen' = IF metrics_val.JaccardScore > maxSeen
                   THEN metrics_val.JaccardScore ELSE maxSeen
    /\ epoch' = epoch + 1
    /\ pc' = "loop"
    /\ UNCHANGED <<config, evaluation, i, loss, alpha, metrics_val, metrics_train, grads,
                   hparams, err, applied, steps, forwards, lossEpoch, valEpochs>>

\* writer.add_hparams(...), "TRAINING FINISHED"
Finish ==
    /\ pc = "loop"
    /\ epoch >= epochs
    /\ hparams' = [Accuracy |-> best_accuracy, mIoU |-> best_jaccard_score]
    /\ pc' = "finished"
    /\ UNCHANGED <<config, evaluation, best, epoch, i, loss, alpha, metrics_val, metrics_train,
                   grads, err, applied, steps, forwards, lossEpoch, valEpochs>>

Next ==
    \/ StartEpoch
    \/ MiniBatch
    \/ EndEpoch
    \/ Validate
    \/ Checkpointing
    \/ Finish

Spec == Init /\ [][Next]_vars

\* ------------------------------------------------------ the loss schedule

training == <<epochs, batch_mult, validation_frequency, nTrainBatches, nValBatches,
              i, best, metrics_val, metrics_train, grads, hparams, err, applied,
              steps, forwards, valEpochs>>

\* the loss of lines 285-299, epoch after epoch
InitLoss ==
    /\ loss_to_use \in LossNames \cup {"FOCAL"}
    /\ epochs_switch \in IF loss_to_use = "DICE+BOUNDARY" THEN 0..MaxSwitch ELSE {0}
    /\ pc = "loss"
    /\ NoTraining
    /\ TrainingStart
    /\ NoEvaluation

ComputeLoss ==
    /\ pc = "loss"
    /\ loss' = TrainingLoss(loss_to_use, epoch, epochs_switch)
    /\ lossEpoch' = epoch
    /\ alpha' = IF loss_to_use = "DICE+BOUNDARY" /\ epoch >= epochs_switch
                THEN Alpha(epoch, epochs_switch) ELSE alpha
    /\ pc' = "backward"
    /\ UNCHANGED <<training, evaluation, loss_to_use, epochs_switch, epoch>>

NextEpoch ==
    /\ pc = "backward"
    /\ epoch < MaxLossEpoch
    /\ epoch' = epoch + 1
    /\ pc' = "loss"
    /\ UNCHANGED <<training, evaluation, loss_to_use, epochs_switch, loss, alpha,
                   lossEpoch>>

NextLoss ==
    \/ ComputeLoss
    \/ NextEpoch

SpecLoss == InitLoss /\ [][NextLoss]_vars

\* ------------------------------------------- evaluateNetwork, testNetwork

\* a call of evaluateNetwork: by testNetwork, or by trainingNetwork on its
\* validation split (flagTrainingDataset=False) or training split (True)
InitEval ==
    /\ caller \in {"testNetwork", "trainingNetwork"}
    /\ flagTrainingDataset \in IF caller = "testNetwork" THEN {FALSE} ELSE BOOLEAN
    /\ \E n \in 0..MaxImages : dataset \in [1..n -> [PixelIdx -> Labels]]
    /\ batch_size \in 1..MaxBatchSize
    /\ pc = "eval"
    /\ EvaluationStart
    /\ loss_to_use = "CROSSENTROPY"
    /\ epochs_switch = 0
    /\ NoTraining
    /\ TrainingStart

trainingState == <<config, epoch, i, loss, alpha, best, metrics_val, metrics_train,
                   grads, hparams, applied, steps, forwards, lossEpoch, valEpochs>>

evalParams == <<caller, dataset, batch_size, flagTrainingDataset>>

RECURSIVE Accumulate(_, _, _)
\* for i in range(batch_size): CM += confusion_matrix(true_index, pred_index,
\* class_indices); "raised" is set by the image confusion_matrix rejects
Accumulate(cm, trues, preds) ==
    IF trues = <<>> THEN [raised |-> FALSE, CM |-> cm]
    ELSE IF NoLabelInTruth(Head(trues)) THEN [raised |-> TRUE, CM |-> cm]
    ELSE Accumulate(AddMatrix(cm, ConfusionMatrix(Head(trues), Head(preds))),
                    Tail(trues), Tail(preds))

\* one iteration of the loop over dataloader
EvalBatch ==
    /\ pc = "eval"
    /\ k < Len(DataLoader(dataset, batch_size))
    /\ LET labels_batch == DataLoader(dataset, batch_size)[k + 1]
       IN  \E predictions \in [1..batch_size -> [PixelIdx -> Classes]] :
             LET acc == Accumulate(CM, labels_batch, predictions)
             IN  /\ loss_values' = Append(loss_values, k)
                 /\ IF flagTrainingDataset
                    THEN UNCHANGED <<ypred_list, ytrue_list>>
                    ELSE /\ ypred_list' = ypred_list \o Ravel(predictions)
                         /\ ytrue_list' = ytrue_list \o Ravel(labels_batch)
                 /\ CM' = acc.CM
                 /\ evaluated' = evaluated \o
                        [n \in 1..batch_size |->
                            [true |-> labels_batch[n], pred |-> predictions[n]]]
                 /\ IF acc.raised
                    THEN /\ pc' = "raised"
                         /\ err' = "ValueError"
                         /\ UNCHANGED k
                    ELSE /\ k' = k + 1
                         /\ UNCHANGED <<pc, err>>
    /\ UNCHANGED <<trainingState, evalParams, returned, metrics_file>>

\* after the last batch: mean loss, Jaccard, normalization, accuracy, return
EvalReturn ==
    /\ pc = "eval"
    /\ k = Len(DataLoader(dataset, batch_size))
    /\ LET r == Finalize(loss_values, CM, ytrue_list, ypred_list, flagTrainingDataset)
       IN  IF r.raised # "none"
           THEN /\ pc' = "raised"
                /\ err' = r.raised
                /\ UNCHANGED returned
           ELSE /\ pc' = "returned"
                /\ returned' = r
                /\ UNCHANGED err
    /\ UNCHANGED <<trainingState, evalParams, k, CM, ypred_list, ytrue_list,
                   loss_values, metrics_file, evaluated>>

\* testNetwork: saveMetrics(metrics_test, metrics_filename), "TEST FINISHED"
TestSaveMetrics ==
    /\ pc = "returned"
    /\ caller = "testNetwork"
    /\ metrics_file' = returned.metrics
    /\ pc' = "test finished"
    /\ UNCHANGED <<trainingState, evalParams, k, CM, ypred_list, ytrue_list,
                   loss_values, returned, evaluated, err>>

NextEval ==
    \/ EvalBatch
    \/ EvalReturn
    \/ TestSaveMetrics

SpecEval == InitEval /\ [][NextEval]_vars

\* ------------------------------------------------------------- properties

\* C1: a validation cycle writes the checkpoint (the weights, the validation
\* report and the training report of that cycle) if and only if its
\* validation Jaccard score is strictly greater than the best seen so far
\* (maxSeen: 0 and the scores of all earlier cycles); no other step writes.
C1_CheckpointIffImproved ==
    [][ /\ pc = "compare" /\ metrics_val.JaccardScore > maxSeen
           => /\ nWrites' = nWrites + 1
              /\ checkpoint' = [net |-> steps, val |-> metrics_val,
                                train |-> metrics_train]
        /\ ~(pc = "compare" /\ metrics_val.JaccardScore > maxSeen)
           => /\ nWrites' = nWrites
              /\ checkpoint' = checkpoint ]_vars

\* three validation cycles, the last of which wrote the second checkpoint
C1_Witness ==
    /\ pc = "finished"
    /\ Len(valEpochs) = 3
    /\ nWrites = 2
    /\ checkpoint.val = metrics_val
    /\ best_jaccard_score = MaxScore

\* C2: every optimizer step of an epoch applies the gradients of exactly
\* batch_mult backward passes; after i mini-batches of an epoch there were
\* i div batch_mult steps and i mod batch_mult passes wait in the buffer,
\* and what waits at the end of an epoch is never applied.
C2_StepEveryBatchMult ==
    /\ \A n \in DOMAIN applied : applied[n] = batch_mult
    /\ pc = "train" =>
         /\ Len(applied) = i \div batch_mult
         /\ grads = i % batch_mult
         /\ steps = epoch * (nTrainBatches \div batch_mult) + Len(applied)
    /\ pc = "finished" => steps = epochs * (nTrainBatches \div batch_mult)

\* a step in an epoch that follows one which left gradients over
C2_Witness ==
    /\ pc = "train"
    /\ epoch >= 1
    /\ Len(applied) >= 1
    /\ batch_mult > 1
    /\ nTrainBatches % batch_mult # 0

\* C3: under DICE+BOUNDARY the loss of a mini-batch of an epoch <=
\* epochs_switch is the loss the DICE policy computes.
C3_DiceUntilSwitchIncluded ==
    (loss_to_use = "DICE+BOUNDARY" /\ lossEpoch >= 0 /\ lossEpoch <= epochs_switch)
        => loss = TrainingLoss("DICE", lossEpoch, epochs_switch)

\* C4: under DICE+BOUNDARY, from epochs_switch on, alpha is
\* max(0, 1 - (epoch - epochs_switch)/10), lies in [0, 1] and never grows,
\* and from epochs_switch + 10 on it is 0 and the loss is 0.3 * Boundary.
C4_AlphaSchedule ==
    /\ [](loss_to_use = "DICE+BOUNDARY" /\ lossEpoch >= epochs_switch =>
            /\ alpha >= 0
            /\ alpha <= AlphaDecayEpochs
            /\ \/ alpha = 0 /\ AlphaDecayEpochs - (lossEpoch - epochs_switch) <= 0
               \/ alpha = AlphaDecayEpochs - (lossEpoch - epochs_switch)
            /\ lossEpoch >= epochs_switch + AlphaDecayEpochs =>
                 /\ alpha = 0
                 /\ loss = [NoLoss EXCEPT !.surface = BoundaryFactorTenths * 10])
    /\ [][alpha >= 0 => alpha' <= alpha]_vars

\* a loss computed ten epochs or more after the switch
C4_Witness ==
    /\ loss_to_use = "DICE+BOUNDARY"
    /\ pc = "backward"
    /\ lossEpoch > epochs_switch + AlphaDecayEpochs
    /\ loss.dice = 0
    /\ loss.surface > 0

EvaluatedPixels == {<<n, x>> : n \in DOMAIN evaluated, x \in PixelIdx}

\* C6: the confusion matrix handed back counts every evaluated pixel whose
\* true label is not the ignore label once, at (true, predicted), whatever
\* the order of the images and the batch size; its sum is the number of
\* such pixels, and Accuracy is the correct ones over that sum.
C6_ConfusionMatrixCounts ==
    pc \in {"returned", "test finished"} =>
        LET cm == returned.metrics.ConfMatrix
            counted == {q \in EvaluatedPixels : evaluated[q[1]].true[q[2]] # Ignore}
            correct == {q \in counted :
                          evaluated[q[1]].true[q[2]] = evaluated[q[1]].pred[q[2]]}
        IN  /\ Len(evaluated) = batch_size * Len(DataLoader(dataset, batch_size))
            /\ \A n \in DOMAIN evaluated : evaluated[n].true = dataset[n]
            /\ \A r \in Classes, c \in Classes :
                 cm[r][c] = Cardinality({q \in EvaluatedPixels :
                                /\ evaluated[q[1]].true[q[2]] = r
                                /\ evaluated[q[1]].pred[q[2]] = c})
            /\ MatrixSum(cm) = Cardinality(counted)
            /\ returned.metrics.Accuracy = <<Cardinality(correct), Cardinality(counted)>>

\* two batches handed back, with an ignored pixel among them
C6_Witness ==
    /\ pc = "returned"
    /\ Len(DataLoader(dataset, batch_size)) = 2
    /\ \E q \in EvaluatedPixels : evaluated[q[1]].true[q[2]] = Ignore
    /\ MatrixSum(returned.metrics.ConfMatrix) < Cardinality(EvaluatedPixels)

\* the epochs whose end the loop has reached
EpochsEnded ==
    IF pc = "compare" \/ (pc = "raised" /\ err = "ZeroDivisionError")
    THEN 0..epoch ELSE 0..(epoch - 1)

\* C7: validation runs after epoch e exactly when e > 0 and e + 1 is a
\* multiple of validation_frequency; consecutive validations are
\* validation_frequency epochs apart.
C7_ValidationEveryFrequency ==
    /\ {valEpochs[n] : n \in DOMAIN valEpochs} =
         {e \in EpochsEnded : e > 0 /\ (e + 1) % validation_frequency = 0}
    /\ \A n \in DOMAIN valEpochs :
         n > 1 => valEpochs[n] = valEpochs[n - 1] + validation_frequency

\* two validations, two epochs apart
C7_Witness ==
    /\ validation_frequency = 2
    /\ Len(valEpochs) = 2
    /\ pc = "finished"

\* C8: a run with a loss name outside LossNames processes no mini-batch,
\* makes no optimizer step, enters no validation and never reaches
\* "TRAINING FINISHED".
C8_UnknownLossFailsAtStartup ==
    loss_to_use \notin LossNames =>
        /\ forwards = 0
        /\ steps = 0
        /\ valEpochs = <<>>
        /\ pc # "finished"

\* C9: with flagTrainingDataset false, no pixel with the ignore label is in
\* the true labels buffered over the batches and passed to jaccard_score.
C9_NoIgnoreInJaccardArrays ==
    (pc \in {"returned", "test finished"} /\ ~flagTrainingDataset) =>
        \A n \in DOMAIN ytrue_list : ytrue_list[n] # Ignore

====
